---- MODULE Spec2Model ----
(***************************************************************************)
(* A model of libapparatus' resilient JSON-RPC channel (WSClient,          *)
(* src/libapparatus/ws_client.py) running on one asyncio event loop.       *)
(*                                                                         *)
(* asyncio is cooperative: a coroutine runs without interruption from one  *)
(* suspension point (an await that really waits) to the next.  Every       *)
(* action below is one such uninterrupted run of one task.  The tasks are  *)
(*   "M"  a task running connect()                                         *)
(*   "S"  the user task when it calls send(message)                        *)
(*   "R"  the user task when it calls reconnect()                          *)
(*   the closer, which calls close() any number of times                   *)
(*   one listen() task per established connection (created by connect()).  *)
(* The transport (websockets) and the peer are the environment.            *)
(*                                                                         *)
(* The functions of the message protocol layer (JSONRPC2,                  *)
(* src/libapparatus/jsonrpc2.py) are operators; ProtocolSpec applies them  *)
(* to bounded sets of arguments and records each call in `proto`.          *)
(***************************************************************************)
EXTENDS Integers, Sequences, FiniteSets, TLC

\* ------------------------------------------------------------------ bounds
MaxConns == 2      \* connections the transport establishes in one run
MaxFails == 1      \* connection attempts in a row that end in an error
MaxFrames == 1     \* frames the peer puts on the wire in one run
MaxWire == 2       \* the same, in the runs that look at the order of frames

Conns == 1..MaxConns
None == 0          \* Python's None, for the handle and the task reference

ConnectTasks == {"M"}
SendTasks == {"S"}
ReconnectTasks == {"R"}
Tasks == ConnectTasks \cup SendTasks \cup ReconnectTasks

\* ------------------------------------------------- the argument of send()
\* A message is abstracted to what send() and check_message() look at:
\* whether it is a dict, and the value stored under "jsonrpc" ("absent":
\* no such key, "": the empty string, which Python treats as false).
JsonrpcValues == {"absent", "", "1.0", "2.0"}
Msgs == {[isdict |-> FALSE, jsonrpc |-> "absent"]} \cup
        {[isdict |-> TRUE, jsonrpc |-> v] : v \in JsonrpcValues}

JSONRPC_VERSION == "2.0"

\* dict.get("jsonrpc"): the value, or None ("absent") without the key
Get(m) == m.jsonrpc
\* Python truthiness of that value
Truthy(v) == v \notin {"absent", ""}

\* JSONRPC2.check_message: the envelope check (isWellFormed)
check_message(m) ==
    IF ~m.isdict THEN FALSE
    ELSE IF m.jsonrpc = "absent" \/ m.jsonrpc # JSONRPC_VERSION THEN FALSE
    ELSE TRUE

\* (a variant of SendAccepts without the comparison with "2.0")
SendAcceptsLax(m) == m.isdict /\ Truthy(Get(m))

\* The two guards at the head of WSClient.send (lines 63-66); TRUE when
\* neither raises.
SendAccepts(m) ==
    /\ m.isdict
    /\ ~(~Truthy(Get(m)) \/ Get(m) # "2.0")

\* ------------------------------------------------ values of the protocol
\* A Python value is abstracted to its kind and a printed form.  A dict is
\* a record over the keys the protocol layer looks at, each key holding a
\* value or Absent (the key is not in the dict).
Val(k, v) == [k |-> k, v |-> v]
Absent == Val("absent", "")
PyNone == Val("null", "")

Keys == <<"jsonrpc", "method", "id", "params", "result", "error">>

Dict(j, m, i, p, r, e) ==
    [jsonrpc |-> j, method |-> m, id |-> i, params |-> p, result |-> r,
     error |-> e]

\* isinstance(x, dict), isinstance(x, str) for a text
IsDict(x) == "jsonrpc" \in DOMAIN x
IsText(x) == "valid" \in DOMAIN x

\* isinstance(x, str); isinstance(x, (int, str)), which holds of a bool
\* (bool is a subclass of int); isinstance(x, (dict, list))
IsStr(x) == x.k = "str"
IsIntOrStr(x) == x.k \in {"int", "bool", "str"}
IsDictOrList(x) == x.k \in {"obj", "arr"}

Version == Val("str", JSONRPC_VERSION)

TYPE_REQUEST == "REQUEST"
TYPE_RESPONSE == "RESPONSE"
TYPE_NOTIFICATION == "NOTIFICATION"

\* JSONRPC2.check_request (message.get("jsonrpc") is None without the key)
check_request(m) ==
    IF ~IsDict(m) THEN FALSE
    ELSE IF m.jsonrpc # Version THEN FALSE
    ELSE IF m.method = Absent \/ ~IsStr(m.method) THEN FALSE
    ELSE IF m.id = Absent \/ ~IsIntOrStr(m.id) THEN FALSE
    ELSE TRUE

\* JSONRPC2.check_response
check_response(m) ==
    IF ~IsDict(m) THEN FALSE
    ELSE IF m.jsonrpc # Version THEN FALSE
    ELSE IF m.result = Absent /\ m.error = Absent THEN FALSE
    ELSE IF m.id = Absent \/ ~IsIntOrStr(m.id) THEN FALSE
    ELSE TRUE

\* JSONRPC2.check_notification
check_notification(m) ==
    IF ~IsDict(m) THEN FALSE
    ELSE IF m.jsonrpc # Version THEN FALSE
    ELSE IF m.method = Absent \/ ~IsStr(m.method) THEN FALSE
    ELSE IF m.id # Absent THEN FALSE
    ELSE IF m.params # Absent /\ ~IsDictOrList(m.params) THEN FALSE
    ELSE TRUE

\* (a variant of get_message_type that tries the response check first)
get_message_type_response_first(m) ==
    IF ~IsDict(m) THEN "False"
    ELSE IF m.jsonrpc = Absent \/ m.jsonrpc # Version THEN "False"
    ELSE IF check_response(m) THEN TYPE_RESPONSE
    ELSE IF check_request(m) THEN TYPE_REQUEST
    ELSE IF check_notification(m) THEN TYPE_NOTIFICATION
    ELSE "None"

\* JSONRPC2.get_message_type: False when the envelope fails, one of the
\* three types, or None (the function ends without a return statement).
get_message_type(m) ==
    IF ~IsDict(m) THEN "False"
    ELSE IF m.jsonrpc = Absent \/ m.jsonrpc # Version THEN "False"
    ELSE IF check_request(m) THEN TYPE_REQUEST
    ELSE IF check_response(m) THEN TYPE_RESPONSE
    ELSE IF check_notification(m) THEN TYPE_NOTIFICATION
    ELSE "None"

\* The outcome of a call: the value returned, or the exception raised.
Ret(x) == [exc |-> "", val |-> x]
Raise(e) == [exc |-> e, val |-> PyNone]

\* The method registry (lines 13-36): names and codes.
Registry ==
    [REGISTER |-> "1", UNREGISTER |-> "2", PING |-> "3", GET_STATUS |-> "5",
     GET_NODE_STATUS |-> "6", GET_USER_STATUS |-> "7", GET_CONFIG |-> "10",
     SET_CONFIG |-> "11", INIT_CAMERA |-> "20", GET_CAMERA_STATUS |-> "21",
     GET_CAMERA_CONFIG |-> "22", SET_CAMERA_CONFIG |-> "23",
     GET_CAMERA_FRAME |-> "24", START_CAMERA_STREAM |-> "25",
     STOP_CAMERA_STREAM |-> "26", INIT_MOTOR |-> "30",
     GET_MOTOR_STATUS |-> "31", GET_MOTOR_CONFIG |-> "32",
     SET_MOTOR_CONFIG |-> "33", START_MOTOR |-> "34", STOP_MOTOR |-> "35"]

\* The other attributes of the class JSONRPC2: the version (line 11), the
\* type names (lines 38-40), the static methods and what every class has.
OtherAttrs ==
    [JSONRPC_VERSION |-> Val("str", JSONRPC_VERSION),
     TYPE_REQUEST |-> Val("str", TYPE_REQUEST),
     TYPE_RESPONSE |-> Val("str", TYPE_RESPONSE),
     TYPE_NOTIFICATION |-> Val("str", TYPE_NOTIFICATION),
     check_message |-> Val("function", "check_message"),
     make_request |-> Val("function", "make_request"),
     parse_message |-> Val("function", "parse_message"),
     __doc__ |-> Val("str", "doc"),
     __name__ |-> Val("str", "JSONRPC2")]

\* getattr(JSONRPC2, name) (line 151): any attribute of the class.
GetAttr(name) ==
    IF name \in DOMAIN Registry THEN Ret(Val("int", Registry[name]))
    ELSE IF name \in DOMAIN OtherAttrs THEN Ret(OtherAttrs[name])
    ELSE Raise("AttributeError")

\* JSONRPC2.make_request(method, id, params), None standing for an
\* argument left out.
make_request(method, id, params) ==
    LET looked == IF id # PyNone THEN Ret(id) ELSE GetAttr(method) IN
    IF looked.exc # "" THEN looked
    ELSE Ret(Dict(Version, Val("str", method), looked.val,
                  IF params # PyNone THEN params ELSE Val("obj", "{}"),
                  Absent, Absent))

\* (a variant of make_notification that defaults params as make_request
\* does)
make_notification_defaulted(method, params) ==
    Dict(Version, Val("str", method), Absent,
         IF params # PyNone THEN params ELSE Val("obj", "{}"),
         Absent, Absent)

\* JSONRPC2.make_notification(method, params)
make_notification(method, params) ==
    Dict(Version, Val("str", method), Absent,
         IF params # PyNone THEN params ELSE Absent,
         Absent, Absent)

\* ------------------------------------------------------------ JSON text
\* A text is either not JSON (valid = FALSE), or the text of an object:
\* its members in order, or the text of another value (a number, a
\* string, an array...).
TextOfObject(items) ==
    [valid |-> TRUE, top |-> "object", items |-> items, scalar |-> PyNone]
TextOfScalar(x) ==
    [valid |-> TRUE, top |-> "scalar", items |-> <<>>, scalar |-> x]
BadText ==
    [valid |-> FALSE, top |-> "scalar", items |-> <<>>, scalar |-> PyNone]

\* What json.dumps writes for a value: a tuple becomes an array.
ToJson(x) == IF x.k = "tuple" THEN Val("arr", x.v) ELSE x

Present(p) == p[2] # Absent

\* json.dumps(d) for a dict: one member for each key of the dict.
dumps(d) ==
    TextOfObject(
        SelectSeq([i \in 1..Len(Keys) |-> <<Keys[i], ToJson(d[Keys[i]])>>],
                  Present))

\* The value json.loads gives a key: that of its last member in the text.
RECURSIVE Lookup(_, _)
Lookup(items, key) ==
    IF items = <<>> THEN Absent
    ELSE LET last == items[Len(items)] IN
         IF last[1] = key THEN last[2]
         ELSE Lookup(SubSeq(items, 1, Len(items) - 1), key)

\* json.loads(t) for a valid text
loads(t) ==
    IF t.top = "object"
    THEN [key \in {Keys[i] : i \in 1..Len(Keys)} |-> Lookup(t.items, key)]
    ELSE t.scalar

\* `"jsonrpc" in message` (line 223): a key of a dict, a substring of a
\* string, an element of a list; TypeError for a value that is not a
\* container.
InMessage(x) ==
    IF IsDict(x) THEN Ret(x.jsonrpc # Absent)
    ELSE IF x.k = "str" THEN Ret(x.v \in {"jsonrpc", "xjsonrpcx"})
    ELSE IF x.k = "arr" THEN Ret(x.v = "[jsonrpc]")
    ELSE Raise("TypeError")

\* JSONRPC2.parse_message(msg): a decoding error is caught, printed and
\* None returned (lines 220-222); an argument that is neither a str nor a
\* dict leaves `message` unbound, which the assert statement then reads.
parse_message(msg) ==
    IF IsText(msg) /\ ~msg.valid THEN Ret(PyNone)
    ELSE IF ~IsText(msg) /\ ~IsDict(msg) THEN Raise("UnboundLocalError")
    ELSE LET message == IF IsText(msg) THEN loads(msg) ELSE msg
             found == InMessage(message) IN
         IF found.exc # "" THEN found
         ELSE IF ~found.val THEN Raise("AssertionError")
         ELSE Ret(message)

VARIABLES
    ws,           \* self.ws: None or the connection last assigned
    listen_task,  \* self.listen_task: None or the listen task last created
    stop,         \* self._stop
    conn,         \* transport: state of each connection
    inbox,        \* transport: frames received on a connection, not yet read
    outbox,       \* transport: senders whose frame was written, per connection
    ltask,        \* the listen tasks: status and the connection each one reads
    pc,           \* where each task is suspended
    result,       \* how each task's call ended
    own,          \* per task: the connection its connect() established last
    closer,       \* where the task calling close() is
    nAttempts,    \* connection attempts started   } since a listen task
    nFails,       \* attempts that ended in error  } was last started
    nSleeps,      \* reconnect delays waited       } (or since Init)
    hookCalls,    \* invocations of on_connect, per connection
    delivered,    \* frames handed to the message handler, in order
    nFrames,      \* frames the peer has put on the wire
    proto         \* the last call of a function of JSONRPC2 and its outcome

chan == <<ws, listen_task, stop>>
net == <<conn, inbox, outbox>>
counts == <<nAttempts, nFails, nSleeps>>
channel == <<ws, listen_task, stop, conn, inbox, outbox, ltask, pc, result,
             own, closer, nAttempts, nFails, nSleeps, hookCalls, delivered,
             nFrames>>
vars == <<channel, proto>>

nConns == Cardinality({c \in Conns : conn[c] # "NEW"})

\* self.ws and self.ws.state == State.OPEN
IsOpen(h) == h # None /\ conn[h] = "OPEN"

Init ==
    /\ ws = None
    /\ listen_task = None
    /\ stop = FALSE
    /\ conn = [c \in Conns |-> "NEW"]
    /\ inbox = [c \in Conns |-> <<>>]
    /\ outbox = [c \in Conns |-> <<>>]
    /\ ltask = [c \in Conns |-> [st |-> "none", src |-> None]]
    /\ pc = [t \in Tasks |-> "idle"]
    /\ result = [t \in Tasks |-> "none"]
    /\ own = [t \in Tasks |-> None]
    /\ closer = "idle"
    /\ nAttempts = 0
    /\ nFails = 0
    /\ nSleeps = 0
    /\ hookCalls = [c \in Conns |-> 0]
    /\ delivered = <<>>
    /\ nFrames = 0
    /\ proto = [op |-> "none", arg |-> PyNone, out |-> PyNone]

\* ------------------------------------------------------- task cancellation
\* Task.cancel(): a task that has not finished ends cancelled (listen()
\* catches Exception, which CancelledError is not); on a finished task it
\* does nothing.  h is self.listen_task, None included.
CancelTask(lt, h) ==
    IF h # None /\ lt[h].st \in {"created", "recv"}
    THEN [lt EXCEPT ![h].st = "cancelled"]
    ELSE lt

\* ------------------------------------------------------------- connect()
\* What running connect() leads to once it returns: send() goes on to its
\* sleep (line 73), connect() and reconnect() callers are done.
ReturnPc(t) == IF t \in SendTasks THEN "send_sleep" ELSE "done"

\* The head of the loop, `while not self._stop` (line 23), with the stop
\* flag read as s: either connect() returns or the next attempt starts
\* (line 25, suspended in websockets.connect).
LoopHead(t, s) ==
    IF s
    THEN /\ pc' = [pc EXCEPT ![t] = ReturnPc(t)]
         /\ result' = IF t \in SendTasks THEN result
                      ELSE [result EXCEPT ![t] = "returned"]
         /\ nAttempts' = nAttempts
    ELSE /\ pc' = [pc EXCEPT ![t] = "connecting"]
         /\ result' = result
         /\ nAttempts' = nAttempts + 1

\* connect() is called by a task of its own.
ConnectCall(t) ==
    /\ UNCHANGED proto
    /\ t \in ConnectTasks
    /\ pc[t] = "idle"
    /\ LoopHead(t, stop)
    /\ UNCHANGED <<chan, net, ltask, own, closer, nFails, nSleeps,
                   hookCalls, delivered, nFrames>>

\* (a variant of Failed that retries at once, without the sleep of line 38)
FailedNoSleep(t) ==
    /\ nFails < MaxFails
    /\ nFails' = nFails + 1
    /\ pc' = [pc EXCEPT ![t] = "connecting"]

\* An attempt ends in the handler of line 36 (websockets.connect raised,
\* or on_connect raised): the error is logged and connect() sleeps the
\* reconnect delay (line 38).
Failed(t) ==
    /\ nFails < MaxFails
    /\ nFails' = nFails + 1
    /\ pc' = [pc EXCEPT ![t] = "conn_sleep"]

\* The transport refuses or loses the attempt: websockets.connect raises
\* (line 25).
ConnectFail(t) ==
    /\ UNCHANGED proto
    /\ pc[t] = "connecting"
    /\ Failed(t)
    /\ UNCHANGED <<chan, net, ltask, result, own, closer, nAttempts, nSleeps,
                   hookCalls, delivered, nFrames>>

\* (a variant of HooksPerConnect: the hook is invoked in both branches of
\* line 29)
HooksPerConnectBoth == 1 + 1

\* Number of times connect() invokes on_connect for the connection it has
\* just established (lines 28-32).
HooksPerConnect == 1

\* Lines 34-35: create the listen task, store it and wait for it.  The
\* task is named after the connection its creator established.
StartListen(t, c) ==
    /\ ltask' = [ltask EXCEPT ![c] = [st |-> "created", src |-> None]]
    /\ listen_task' = c
    /\ own' = [own EXCEPT ![t] = c]
    /\ pc' = [pc EXCEPT ![t] = "await_listen"]
    /\ nAttempts' = 0
    /\ nFails' = 0
    /\ nSleeps' = 0

\* websockets.connect returns an open connection c (line 25): the handle
\* is assigned, on_connect is invoked (lines 28-32), and then, without a
\* suspension in between unless the hook itself waits,
\*   "returns"  the hook returns: the listen task is created (line 34);
\*   "raises"   the hook raises: lines 36-38;
\*   "suspends" the (asynchronous) hook waits for something.
ConnectOK(t) ==
    /\ UNCHANGED proto
    /\ pc[t] = "connecting"
    /\ nConns < MaxConns
    /\ LET c == nConns + 1 IN
       /\ conn' = [conn EXCEPT ![c] = "OPEN"]
       /\ ws' = c
       /\ hookCalls' = [hookCalls EXCEPT ![c] = @ + HooksPerConnect]
       /\ \E h \in {"returns", "raises", "suspends"} :
            CASE h = "returns" -> StartListen(t, c)
              [] h = "raises" ->
                    /\ Failed(t)
                    /\ UNCHANGED <<ltask, listen_task, own, nAttempts, nSleeps>>
              [] h = "suspends" ->
                    /\ pc' = [pc EXCEPT ![t] = "on_connect"]
                    /\ own' = [own EXCEPT ![t] = c]
                    /\ UNCHANGED <<ltask, listen_task, counts>>
    /\ UNCHANGED <<stop, inbox, outbox, result, closer, delivered, nFrames>>

\* `await self.on_connect()` (line 30) completes: lines 33-35.
OnConnectReturn(t) ==
    /\ UNCHANGED proto
    /\ pc[t] = "on_connect"
    /\ StartListen(t, own[t])
    /\ UNCHANGED <<ws, stop, net, result, closer, hookCalls, delivered, nFrames>>

\* `await self.on_connect()` raises: lines 36-38.
OnConnectRaise(t) ==
    /\ UNCHANGED proto
    /\ pc[t] = "on_connect"
    /\ Failed(t)
    /\ own' = [own EXCEPT ![t] = None]
    /\ UNCHANGED <<chan, net, ltask, result, closer, nAttempts, nSleeps,
                   hookCalls, delivered, nFrames>>

\* `await asyncio.sleep(self.reconnect_delay)` (line 38) is over: back to
\* the head of the loop.
ConnSleepWake(t) ==
    /\ UNCHANGED proto
    /\ pc[t] = "conn_sleep"
    /\ nSleeps' = nSleeps + 1
    /\ LoopHead(t, stop)
    /\ UNCHANGED <<chan, net, ltask, own, closer, nFails, hookCalls,
                   delivered, nFrames>>

\* The awaited listen task is over and its result has been taken: nothing
\* looks at the task again (cancel() of a finished task does nothing).
Reaped(t) ==
    /\ ltask' = [ltask EXCEPT ![own[t]] = [st |-> "ended", src |-> None]]
    /\ own' = [own EXCEPT ![t] = None]

\* `await self.listen_task` (line 35) returns because listen() returned:
\* no exception, so no sleep; back to the head of the loop.
AwaitListenReturn(t) ==
    /\ UNCHANGED proto
    /\ pc[t] = "await_listen"
    /\ ltask[own[t]].st = "done"
    /\ Reaped(t)
    /\ LoopHead(t, stop)
    /\ UNCHANGED <<chan, net, closer, nFails, nSleeps, hookCalls, delivered,
                   nFrames>>

\* `await self.listen_task` (line 35) raises CancelledError because the
\* listen task was cancelled.  CancelledError is a BaseException: the
\* `except Exception` of line 36 does not catch it and it leaves connect(),
\* and reconnect() and send() when they are the callers.
AwaitListenCancelled(t) ==
    /\ UNCHANGED proto
    /\ pc[t] = "await_listen"
    /\ ltask[own[t]].st = "cancelled"
    /\ Reaped(t)
    /\ pc' = [pc EXCEPT ![t] = "done"]
    /\ result' = [result EXCEPT ![t] = "CancelledError"]
    /\ UNCHANGED <<chan, net, closer, counts, hookCalls, delivered, nFrames>>

\* ------------------------------------------------------------ reconnect()
\* Lines 50-59, after the handle has been dealt with: cancel the listen
\* task, clear the reference and the stop flag, enter connect().
ReconnectTail(t) ==
    /\ ltask' = CancelTask(ltask, listen_task)
    /\ listen_task' = None
    /\ stop' = FALSE
    /\ LoopHead(t, FALSE)

\* Lines 42-49 up to the first suspension: with a handle, call its close()
\* and wait (line 46); without one go straight on.
ReconnectBegin(t) ==
    IF ws # None
    THEN /\ conn' = [conn EXCEPT ![ws] = "CLOSED"]
         /\ pc' = [pc EXCEPT ![t] = "rc_close"]
         /\ UNCHANGED <<ws, listen_task, stop, ltask, result, nAttempts>>
    ELSE /\ ReconnectTail(t)
         /\ UNCHANGED <<ws, conn>>

\* The user task makes one call, send() or reconnect().
UserIdle == \A u \in SendTasks \cup ReconnectTasks : pc[u] = "idle"

\* reconnect() is called from outside the channel.
ReconnectCall(t) ==
    /\ UNCHANGED proto
    /\ t \in ReconnectTasks
    /\ UserIdle
    /\ ReconnectBegin(t)
    /\ UNCHANGED <<inbox, outbox, own, closer, nFails, nSleeps, hookCalls,
                   delivered, nFrames>>

\* `await self.ws.close()` (line 46) is over: line 49 and the rest.
RcCloseResume(t) ==
    /\ UNCHANGED proto
    /\ pc[t] = "rc_close"
    /\ ws' = None
    /\ ReconnectTail(t)
    /\ UNCHANGED <<net, own, closer, nFails, nSleeps, hookCalls, delivered,
                   nFrames>>

\* ------------------------------------------------------------------ send()
\* (a variant of SendGivesUp: give up whenever there is no connection)
SendGivesUpAlways(s) == TRUE

\* Line 69: the condition under which a send that finds no open
\* connection gives up, s being the stop flag.
SendGivesUp(s) == s

\* The loop of lines 68-74 from its head to the next suspension.
SendLoop(t) ==
    IF IsOpen(ws)
    THEN /\ outbox' = [outbox EXCEPT ![ws] = Append(@, t)]
         /\ pc' = [pc EXCEPT ![t] = "done"]
         /\ result' = [result EXCEPT ![t] = "written"]
         /\ UNCHANGED <<chan, conn, ltask, nAttempts>>
    ELSE IF SendGivesUp(stop)
    THEN /\ pc' = [pc EXCEPT ![t] = "done"]
         /\ result' = [result EXCEPT ![t] = "dropped"]
         /\ UNCHANGED <<chan, conn, outbox, ltask, nAttempts>>
    ELSE /\ ReconnectBegin(t)
         /\ UNCHANGED outbox

\* send(m) is called: lines 63-66 reject m or the loop is entered.
SendCall(t, m) ==
    /\ UNCHANGED proto
    /\ t \in SendTasks
    /\ UserIdle
    /\ IF SendAccepts(m)
       THEN SendLoop(t)
       ELSE /\ pc' = [pc EXCEPT ![t] = "done"]
            /\ result' = [result EXCEPT ![t] = "InvalidMessage"]
            /\ UNCHANGED <<chan, conn, outbox, ltask, nAttempts>>
    /\ UNCHANGED <<inbox, own, closer, nFails, nSleeps, hookCalls, delivered,
                   nFrames>>

\* `await asyncio.sleep(self.reconnect_delay)` (line 73) is over.
SendSleepWake(t) ==
    /\ UNCHANGED proto
    /\ pc[t] = "send_sleep"
    /\ SendLoop(t)
    /\ UNCHANGED <<inbox, own, closer, nFails, nSleeps, hookCalls, delivered,
                   nFrames>>

\* send() is inside reconnect(), connect() or its own sleep.
Blocked(t) ==
    pc[t] \in {"rc_close", "connecting", "on_connect", "await_listen",
               "conn_sleep", "send_sleep"}

\* ----------------------------------------------------------------- close()
\* (a variant of CloseStopValue: close() toggles the flag)
CloseStopToggle == ~stop

\* Line 92: the value close() gives the stop flag.
CloseStopValue == TRUE

\* Lines 95-96: cancel the listen task, if any; close() returns.
CloseTail ==
    /\ ltask' = CancelTask(ltask, listen_task)
    /\ closer' = "idle"

\* close() is called: line 92, then lines 93-94 with a handle (suspended
\* in the transport's close) or lines 95-96 at once.
CloseCall ==
    /\ UNCHANGED proto
    /\ closer = "idle"
    /\ stop' = CloseStopValue
    /\ IF ws # None
       THEN /\ conn' = [conn EXCEPT ![ws] = "CLOSED"]
            /\ closer' = "closing"
            /\ UNCHANGED ltask
       ELSE /\ CloseTail
            /\ UNCHANGED conn
    /\ UNCHANGED <<ws, listen_task, inbox, outbox, pc, result, own, counts,
                   hookCalls, delivered, nFrames>>

\* `await self.ws.close()` (line 94) is over: lines 95-96.
CloseResume ==
    /\ UNCHANGED proto
    /\ closer = "closing"
    /\ CloseTail
    /\ UNCHANGED <<chan, net, pc, result, own, counts, hookCalls, delivered,
                   nFrames>>

\* ---------------------------------------------------------------- listen()
\* The listen task runs for the first time: `async for message in self.ws`
\* (line 79) reads the handle as it is now.  Without a handle, or with
\* another task already waiting in recv() on that connection, the
\* iteration raises at once and line 88 ends listen(); otherwise the task
\* waits for a frame.
ListenStart(l) ==
    /\ UNCHANGED proto
    /\ ltask[l].st = "created"
    /\ IF \/ ws = None
          \/ \E k \in Conns : k # l /\ ltask[k].st = "recv" /\ ltask[k].src = ws
       THEN ltask' = [ltask EXCEPT ![l].st = "done"]
       ELSE ltask' = [ltask EXCEPT ![l] = [st |-> "recv", src |-> ws]]
    /\ UNCHANGED <<chan, net, pc, result, own, closer, counts, hookCalls,
                   delivered, nFrames>>

\* Lines 79-84: the next frame is handed to the message handler, which
\* returns; the loop waits for the next frame.
ListenDeliver(l) ==
    /\ UNCHANGED proto
    /\ ltask[l].st = "recv"
    /\ inbox[ltask[l].src] # <<>>
    /\ delivered' = Append(delivered, Head(inbox[ltask[l].src]))
    /\ inbox' = [inbox EXCEPT ![ltask[l].src] = Tail(@)]
    /\ UNCHANGED <<chan, conn, outbox, ltask, pc, result, own, closer, counts,
                   hookCalls, nFrames>>

\* Lines 79-84 and 88-89: the message handler raises on the next frame.
\* The try statement encloses the whole loop, so the handler at line 88
\* logs the error and listen() returns.
ListenHandlerRaises(l) ==
    /\ UNCHANGED proto
    /\ ltask[l].st = "recv"
    /\ inbox[ltask[l].src] # <<>>
    /\ delivered' = Append(delivered, Head(inbox[ltask[l].src]))
    /\ inbox' = [inbox EXCEPT ![ltask[l].src] = Tail(@)]
    /\ ltask' = [ltask EXCEPT ![l] = [st |-> "done", src |-> None]]
    /\ UNCHANGED <<chan, conn, outbox, pc, result, own, closer, counts,
                   hookCalls, nFrames>>

\* Lines 79 and 85-86: the connection is closed and no frame is left; the
\* iteration ends (or raises ConnectionClosed) and listen() returns.
ListenClosed(l) ==
    /\ UNCHANGED proto
    /\ ltask[l].st = "recv"
    /\ conn[ltask[l].src] = "CLOSED"
    /\ inbox[ltask[l].src] = <<>>
    /\ ltask' = [ltask EXCEPT ![l] = [st |-> "done", src |-> None]]
    /\ UNCHANGED <<chan, net, pc, result, own, closer, counts, hookCalls,
                   delivered, nFrames>>

\* ------------------------------------------------------------ environment
\* The peer sends a frame on an open connection, at most n in a run.
\* Frames are numbered in the order they arrive on the wire.
PeerSendUpTo(c, n) ==
    /\ UNCHANGED proto
    /\ conn[c] = "OPEN"
    /\ nFrames < n
    /\ nFrames' = nFrames + 1
    /\ inbox' = [inbox EXCEPT ![c] = Append(@, nFrames')]
    /\ UNCHANGED <<chan, conn, outbox, ltask, pc, result, own, closer, counts,
                   hookCalls, delivered>>

PeerSend(c) == PeerSendUpTo(c, MaxFrames)

WireSend(c) == PeerSendUpTo(c, MaxWire)

\* The peer closes the connection, or the transport fails.
PeerClose(c) ==
    /\ UNCHANGED proto
    /\ conn[c] = "OPEN"
    /\ conn' = [conn EXCEPT ![c] = "CLOSED"]
    /\ UNCHANGED <<chan, inbox, outbox, ltask, pc, result, own, closer, counts,
                   hookCalls, delivered, nFrames>>

\* --------------------------------------------------------- specifications
ChannelNext ==
    \/ \E t \in Tasks : ConnectCall(t)
    \/ \E t \in Tasks : ReconnectCall(t)
    \/ \E t \in Tasks, m \in Msgs : SendCall(t, m)
    \/ CloseCall
    \/ CloseResume
    \/ \E t \in Tasks : ConnectOK(t)
    \/ \E t \in Tasks : ConnectFail(t)
    \/ \E t \in Tasks : OnConnectReturn(t)
    \/ \E t \in Tasks : OnConnectRaise(t)
    \/ \E t \in Tasks : ConnSleepWake(t)
    \/ \E t \in Tasks : AwaitListenReturn(t)
    \/ \E t \in Tasks : AwaitListenCancelled(t)
    \/ \E t \in Tasks : RcCloseResume(t)
    \/ \E t \in Tasks : SendSleepWake(t)
    \/ \E l \in Conns : ListenStart(l)
    \/ \E l \in Conns : ListenDeliver(l)
    \/ \E l \in Conns : ListenHandlerRaises(l)
    \/ \E l \in Conns : ListenClosed(l)
    \/ \E c \in Conns : PeerClose(c)

Next ==
    \/ ChannelNext
    \/ \E c \in Conns : PeerSend(c)

Spec == Init /\ [][Next]_vars

\* The same channel with a peer that sends up to MaxWire frames.
WireNext ==
    \/ ChannelNext
    \/ \E c \in Conns : WireSend(c)

WireSpec == Init /\ [][WireNext]_vars

\* What the event loop and the transport guarantee: a task that can resume
\* is resumed, a sleep ends, the transport's close() completes, a
\* connection attempt is answered, the hook and the handler come back.
\* Nothing is assumed of the peer or of the callers.
Resume(t) ==
    \/ ConnSleepWake(t)
    \/ AwaitListenReturn(t)
    \/ AwaitListenCancelled(t)
    \/ RcCloseResume(t)
    \/ SendSleepWake(t)
    \/ OnConnectReturn(t)
    \/ OnConnectRaise(t)

Answer(t) == ConnectOK(t) \/ ConnectFail(t)

ListenStep(l) ==
    \/ ListenStart(l)
    \/ ListenDeliver(l)
    \/ ListenHandlerRaises(l)
    \/ ListenClosed(l)

AttemptPending == \E t \in Tasks : pc[t] = "connecting"

FairSpec ==
    /\ Init
    /\ [][Next]_vars
    /\ \A t \in Tasks : WF_vars(Resume(t))
    /\ \A t \in Tasks : WF_vars(Answer(t))
    /\ \A l \in Conns : WF_vars(ListenStep(l))
    /\ WF_vars(CloseResume)
    /\ []<>(~AttemptPending)

\* ------------------------------------------------------------------ claims
\* The channel is Connected: the handle refers to an open connection.
Connected == IsOpen(ws)

\* A receive loop is running.
Listening == \E l \in Conns : ltask[l].st \in {"created", "recv"}

\* The transport is closed and no receive loop is running.
TornDown == ~Connected /\ ~Listening

\* send() returns normally in this step.
SendReturns(t) ==
    /\ pc[t] # "done"
    /\ pc'[t] = "done"
    /\ result'[t] \in {"written", "dropped"}

\* C1: a send() never returns normally before the channel is Connected and
\* its message has been written as one frame on the connection the handle
\* refers to, unless the stop flag is set (which only close() does): with
\* close() not called the message is never dropped.
C1_SendNeverDrops ==
    [][\A t \in SendTasks :
         SendReturns(t) =>
            \/ /\ result'[t] = "written"
               /\ Connected
               /\ outbox'[ws] = Append(outbox[ws], t)
            \/ stop]_vars

\* C1, its case: a send() issued while disconnected has reconnected, the
\* channel is Connected, the stop flag is not set, and the send has not
\* returned.
C1_Witness ==
    \E t \in SendTasks :
        /\ pc[t] = "await_listen"
        /\ ws = own[t]
        /\ Connected
        /\ ~stop
        /\ result[t] = "none"

\* C2: if send(m) is issued while disconnected, close() is never called
\* (the stop flag is never set) and from some point on the channel is
\* Connected for good, then send(m) eventually writes m and returns.
C2_SendEventuallyReturns ==
    ([](~stop) /\ <>[]Connected) =>
        \A t \in SendTasks : Blocked(t) ~> (result[t] = "written")

\* C3: when close() is called while a send() is blocked (the stop flag is
\* set and the send is inside reconnect(), connect() or its sleep), that
\* send eventually unblocks.
C3_CloseUnblocksSend ==
    \A t \in SendTasks : (stop /\ Blocked(t)) ~> ~Blocked(t)

\* C4: after close(), unless the channel is re-armed, the channel
\* eventually is torn down (transport closed, no receive loop running)
\* and stays so.
C4_CloseTearsDown == <>[]stop => <>[]TornDown

\* C5: once close() has set the stop flag, no step of connect() or of
\* send() clears the flag or starts a connection attempt.
C5_NoAutomaticReconnect ==
    [][stop =>
         \A t \in ConnectTasks \cup SendTasks :
            pc'[t] # pc[t] => (stop' /\ pc'[t] # "connecting")]_vars

\* C6: the delivery of a frame to the message handler, whether the
\* handler returns or raises, leaves the receive loop running and the
\* channel as it is.
C6_HandlerErrorIsolated ==
    [][delivered' # delivered =>
         /\ \A l \in Conns : ltask[l].st = "recv" => ltask'[l].st = "recv"
         /\ UNCHANGED <<ws, conn>>]_vars

sendView == <<ws, stop, listen_task, conn, inbox, outbox, ltask, nAttempts>>

\* C8: send(m) with m failing the envelope check (check_message) ends at
\* once with InvalidMessage, whatever the state of the channel, and
\* changes neither the handle, the stop flag, the listen task nor the
\* transport.
C8_InvalidMessageRejected ==
    [][\A t \in SendTasks, m \in Msgs :
         (~check_message(m) /\ SendCall(t, m)) =>
            /\ pc'[t] = "done"
            /\ result'[t] = "InvalidMessage"
            /\ UNCHANGED sendView]_vars

\* C8, its case: a malformed message was rejected while the channel was
\* Connected with its receive loop running.
C8_Witness ==
    /\ \E t \in SendTasks : result[t] = "InvalidMessage"
    /\ Connected
    /\ \E l \in Conns : ltask[l].st = "recv"
    /\ ~stop

\* C9: close() can be called in every state and ends; each call leaves the
\* stop flag set and the transport closed, and a call on a channel that is
\* already closed changes nothing of the channel.
C9_CloseIdempotent ==
    /\ [](closer = "idle" => ENABLED CloseCall)
    /\ [](closer = "closing" => ENABLED CloseResume)
    /\ [][CloseCall => (stop' /\ ~Connected' /\ ws' = ws)]_vars
    /\ [][(CloseCall \/ CloseResume) /\ stop /\ TornDown =>
            (stop' /\ TornDown' /\ UNCHANGED <<ws, listen_task, ltask>>)]_vars

\* C9, its case: close() was called on a channel that was never connected
\* and has returned.
C9_Witness ==
    /\ stop
    /\ closer = "idle"
    /\ nConns = 0
    /\ ws = None
    /\ \A t \in Tasks : pc[t] = "idle"

C11_DeliveredInWireOrder ==
    \A i, j \in 1..Len(delivered) : i < j => delivered[i] < delivered[j]

\* ------------------------------------------------- the protocol functions
\* The arguments the functions of JSONRPC2 are called with.
JsonrpcArgs == {Absent, Version, Val("str", "1.0"), Val("float", "2.0")}
MethodArgs == {Absent, Val("str", "PING"), Val("int", "3")}
IdArgs ==
    {Absent, Val("int", "1"), Val("str", "a"), PyNone, Val("bool", "True"),
     Val("float", "1.5")}
ParamsArgs == {Absent, Val("obj", "{}"), Val("arr", "[]"), Val("str", "p")}
ResultArgs == {Absent, PyNone}
ErrorArgs == {Absent, Val("obj", "{code}")}

Dicts ==
    {Dict(j, m, i, p, r, e) :
        j \in JsonrpcArgs, m \in MethodArgs, i \in IdArgs, p \in ParamsArgs,
        r \in ResultArgs, e \in ErrorArgs}

NonDicts == {PyNone, Val("str", "jsonrpc"), Val("arr", "[]"), Val("int", "2")}

MethodNames ==
    {"PING", "GET_STATUS", "STOP_MOTOR", "status", "JSONRPC_VERSION",
     "TYPE_REQUEST", "make_request"}

ExplicitIds == {PyNone, Val("int", "0"), Val("int", "7"), Val("str", "a")}

ParamsGiven ==
    {PyNone, Val("obj", "{}"), Val("arr", "[1]"), Val("tuple", "[1]")}

SmallDicts ==
    {Dict(j, m, i, Absent, r, Absent) :
        j \in {Absent, Version}, m \in {Absent, Val("str", "PING")},
        i \in {Absent, Val("int", "1")}, r \in ResultArgs}

Texts ==
    {BadText} \cup {dumps(d) : d \in SmallDicts}
    \cup {TextOfScalar(x) :
            x \in {Val("int", "5"), PyNone, Val("str", "hello"),
                   Val("str", "xjsonrpcx"), Val("arr", "[]"),
                   Val("arr", "[jsonrpc]")}}

ParseArgs == Texts \cup SmallDicts \cup {PyNone, Val("bytes", "{}"), Val("arr", "[]")}

\* A call and its outcome, as proto records them.
Called(op, arg, out) == [op |-> op, arg |-> arg, out |-> out]

Classify ==
    /\ \E m \in Dicts \cup NonDicts :
          proto' = Called("classify", m, get_message_type(m))
    /\ UNCHANGED channel

MakeRequest ==
    /\ \E method \in MethodNames, id \in ExplicitIds, params \in ParamsGiven :
          proto' = Called("make_request",
                          [method |-> method, id |-> id, params |-> params],
                          make_request(method, id, params))
    /\ UNCHANGED channel

MakeNotification ==
    /\ \E method \in MethodNames, params \in ParamsGiven :
          proto' = Called("make_notification",
                          [method |-> method, params |-> params],
                          make_notification(method, params))
    /\ UNCHANGED channel

Parse ==
    /\ \E msg \in ParseArgs :
          proto' = Called("parse_message", msg, parse_message(msg))
    /\ UNCHANGED channel

ProtocolNext == Classify \/ MakeRequest \/ MakeNotification \/ Parse

ProtocolSpec == Init /\ [][ProtocolNext]_vars

\* C12: a message that is a request (envelope "2.0", string method, id an
\* integer or a string), whatever its other fields, is classified Request,
\* and neither the response check nor the notification check accepts it.
C12_RequestOnlyRequest ==
    (proto.op = "classify" /\ check_request(proto.arg)
        /\ proto.arg.id.k \in {"int", "str"}) =>
        /\ proto.out = TYPE_REQUEST
        /\ ~check_response(proto.arg)
        /\ ~check_notification(proto.arg)

\* The envelope check get_message_type starts with.
Envelope(m) == IsDict(m) /\ m.jsonrpc = Version

\* The values get_message_type gives an unclassified message.
Unclassified == {"False", "None"}

C14_MakeRequestIds ==
    proto.op = "make_request" =>
        LET a == proto.arg IN
        IF a.id # PyNone
        THEN proto.out.exc = "" /\ proto.out.val.id = a.id
        ELSE IF a.method \in DOMAIN Registry
        THEN /\ proto.out.exc = ""
             /\ proto.out.val.id = Val("int", Registry[a.method])
        ELSE proto.out.exc # ""

\* C15: parse_message raises on a text that is not JSON, raises the
\* protocol error (the assertion of line 223) on a payload that decodes
\* to something without a "jsonrpc" key, and returns the decoded value
\* otherwise.
C15_ParseErrorsSurface ==
    (proto.op = "parse_message" /\ (IsText(proto.arg) \/ IsDict(proto.arg))) =>
        LET msg == proto.arg IN
        IF IsText(msg) /\ ~msg.valid
        THEN proto.out.exc # ""
        ELSE LET message == IF IsText(msg) THEN loads(msg) ELSE msg IN
             IF IsDict(message) /\ message.jsonrpc # Absent
             THEN proto.out = Ret(message)
             ELSE proto.out.exc = "AssertionError"

\* The keys of a dict.
FieldSet(d) == {Keys[i] : i \in {j \in 1..Len(Keys) : d[Keys[j]] # Absent}}

ActiveLoops ==
    {t \in Tasks :
        pc[t] \in {"connecting", "on_connect", "await_listen", "conn_sleep"}}

\* The receive loops that are running.
ActiveListeners == {l \in Conns : ltask[l].st \in {"created", "recv"}}

\* The connections that are open.
OpenConns == {c \in Conns : conn[c] = "OPEN"}

\* C17: when the receive loop has ended and the stop flag is not set, the
\* connect loop that waited for it does not start the next attempt in
\* that step: it waits the reconnect delay first (stated for connect()
\* running alone, with no send() and no reconnect()).
C17_DelayAfterLoss ==
    [][\A t \in ConnectTasks :
         (UserIdle /\ pc[t] = "await_listen" /\ ~stop) =>
            pc'[t] # "connecting"]_vars

\* C18: at any time at most one connect loop is attempting or holding a
\* connection, at most one receive loop is running and at most one
\* connection is open (stated for connect(), send() and close() alone:
\* reconnect() is not called from outside).
C18_SingleLoop ==
    (\A r \in ReconnectTasks : pc[r] = "idle") =>
        /\ Cardinality(ActiveLoops) <= 1
        /\ Cardinality(ActiveListeners) <= 1
        /\ Cardinality(OpenConns) <= 1

\* C19: connect() ends only with the stop flag set and by returning: no
\* step ends it with an exception or while the flag is clear.
C19_ConnectEndsOnlyOnStop ==
    [][\A t \in ConnectTasks :
         (pc[t] # "done" /\ pc'[t] = "done") =>
            (stop /\ result'[t] = "returned")]_vars

\* C20: the receive loop a connect attempt starts reads the connection
\* that attempt established (listen tasks are named after it), and a
\* frame is written only on the open connection the handle refers to.
C20_NoHandleSwap ==
    /\ [](\A l \in Conns : ltask[l].st = "recv" => ltask[l].src = l)
    /\ [][\A c \in Conns :
            outbox'[c] # outbox[c] => (c = ws /\ conn[c] = "OPEN")]_vars

====
